---------------------------- MODULE Spec2Model ----------------------------
(***************************************************************************)
(* Model of the mailbox synchronisation service of the Email Management    *)
(* System: EmailSyncService (start / stop / backfill / poll / pipeline),   *)
(* with the collaborators it awaits: the index store, the classifier, the  *)
(* Slack notifier and the generic webhook.                                 *)
(*                                                                         *)
(* Node runs one callback at a time, so a step of the model is the code    *)
(* that runs from the completion of one awaited I/O call to the next       *)
(* awaited I/O call.  Every asynchronous call chain in flight (a start()   *)
(* call, a stop() call, one firing of a poll timer) is a task with its own *)
(* position and local variables.                                           *)
(***************************************************************************)
EXTENDS Integers, Sequences, FiniteSets

VARIABLES
  cfg,            \* the configuration the service was constructed with
  mbox,           \* raw records every watched folder holds on the server
  isRunning,      \* EmailSyncService.isRunning
  connections,    \* EmailSyncService.connections: insertion-ordered map, a sequence of <<account, connection>>
  connState,      \* state of every connection object ever created
  connBox,        \* the folder currently selected on every connection
  syncIntervals,  \* EmailSyncService.syncIntervals: accounts with a registered timer
  connAcct,       \* the account every connection object was created for (0: not created)
  liveTimers,     \* per account, the number of interval timers created and not cleared
  index,          \* the documents of the index store, by document id
  now,            \* the wall clock (new Date())
  tasks           \* the asynchronous call chains in flight

vars == <<cfg, mbox, isRunning, connections, connState, connBox, connAcct, syncIntervals,
          liveTimers, index, now, tasks>>

---------------------------------------------------------------------------
(* Bounds of the model: folders per account, raw records per folder,        *)
(* connection objects ever created, live timers per account, call chains   *)
(* in flight at once, readings of the wall clock.                          *)

MaxFolders == 2
MaxMsgs == 2
MaxConns == 3
MaxTimers == 2
MaxTasks == 2
MaxClock == 2

(* Program constants *)

NumAccounts == 2
Retries == 3

Accounts == 1..NumAccounts
ConnIds == 1..MaxConns
TaskIds == 1..MaxTasks

Actionable == "Interested"

\* What categorizeEmail can return: null, a label of the closed set, or any
\* other text the engine produced (parseAIResponse casts without checking).
CategorizeResults == {"null", "Interested", "Not Interested", "interested"}

---------------------------------------------------------------------------
(* Configuration and mailbox contents *)

\* const thirtyDaysAgo = new Date(); setDate(getDate() - 30): the backfill
\* window, in days (the unit of the clock `now`)
WindowDays == 30

\* a raw record as the server returns it: its uid in the folder, whether it has
\* both its HEADER and TEXT parts (wf), whether it carries the \\Seen flag,
\* whether it is structurally unusable (no parts array, or a HEADER part
\* without a parsed body: reading it throws), its subject and to headers
\* ("none" when the header is absent), whether it has a Date header and the
\* date it carries, and the day the server received it (its internal date,
\* which SINCE compares; day 0 is the day the service is constructed)
RawRecord(u, wf, seen, broken, subject, to, hasDate, date) ==
  [uid |-> u, wf |-> wf, seen |-> seen, broken |-> broken, subject |-> subject,
   to |-> to, hasDate |-> hasDate, hdate |-> date, date |-> date]

\* an ordinary record received on day 0, all its headers present
Raw(u, wf, seen) == RawRecord(u, wf, seen, FALSE, "Hello", "x@y", TRUE, 0)

\* all lists of n raw records, uids 1..n, each with or without its HEADER and
\* TEXT parts, and with a \\Seen flag out of seens
RawLists(n, seens) ==
  { s \in [1..n -> {Raw(u, b, f) : u \in 1..n, b \in BOOLEAN, f \in seens}] :
      \A i \in 1..n : s[i].uid = i }

Configs(credSets, folderCounts, ai, bot, shook, hook) ==
  [creds : credSets, nFolders : folderCounts, aiAvailable : ai,
   slackBot : bot, slackHook : shook, webhookUrl : hook]

---------------------------------------------------------------------------
(* Tasks *)

NoRec == [uid |-> 0, folder |-> 0, index |-> "no", cat |-> "no", update |-> "no",
          slackBot |-> "no", slackHook |-> "no", hook |-> "no", attempts |-> 0,
          emit |-> FALSE, ts |-> 0, subject |-> "", conf |-> [nan |-> FALSE, v |-> 0],
          delay |-> 0]

IdleTask == [kind |-> "idle", pc |-> "idle", acct |-> 0, mode |-> "none", conn |-> 0,
             fi |-> 0, msgs |-> <<>>, mi |-> 0, errLogged |-> FALSE, rec |-> NoRec,
             since |-> 0]


LowestIdle(t) == /\ tasks[t] = IdleTask
                 /\ \A u \in TaskIds : u < t => tasks[u] # IdleTask

\* Map.get / Map.set on the insertion-ordered connection registry
MapHas(m, a) == \E i \in 1..Len(m) : m[i][1] = a
MapGet(m, a) == IF MapHas(m, a) THEN m[CHOOSE i \in 1..Len(m) : m[i][1] = a][2] ELSE 0
\* (mutant) a registry that keeps the last entry only
MapSetOnly(m, a, c) == <<<<a, c>>>>

MapSet(m, a, c) == IF MapHas(m, a)
                   THEN [i \in 1..Len(m) |-> IF m[i][1] = a THEN <<a, c>> ELSE m[i]]
                   ELSE Append(m, <<a, c>>)

\* getConnectionStatus: one entry per registered connection, true when the
\* connection's state is 'authenticated'
getConnectionStatus ==
  [a \in {connections[i][1] : i \in 1..Len(connections)} |->
     connState[MapGet(connections, a)] = "authenticated"]

---------------------------------------------------------------------------
(* The account loop of start() and the folder loop of a pass               *)

\* (mutant) the credentials are not looked at
NextAccountAny(i) == IF i \in Accounts THEN i ELSE 0

\* first account at or after i with user and password, 0 when there is none
NextAccount(i) ==
  IF \E a \in Accounts : a >= i /\ cfg.creds[a]
  THEN CHOOSE a \in Accounts : /\ a >= i /\ cfg.creds[a]
                               /\ \A b \in Accounts : (b >= i /\ cfg.creds[b]) => a <= b
  ELSE 0

\* start(): the loop over the accounts, entering startAccountSync ->
\* performInitialSync -> createIMAPConnection for the next one with credentials
StartLoop(tk, i) ==
  IF NextAccount(i) = 0 THEN IdleTask
  ELSE [tk EXCEPT !.acct = NextAccount(i), !.mode = "backfill", !.pc = "connect",
                  !.conn = 0, !.fi = 0, !.msgs = <<>>, !.mi = 0, !.errLogged = FALSE,
                  !.rec = NoRec]

\* return of startAccountSync (normally or through its catch) to its caller:
\* start() goes on to the next account, checkForNewEmails returns
AfterStartAccountSync(tk) ==
  IF tk.kind = "start" THEN StartLoop(tk, tk.acct + 1) ELSE IdleTask

\* end of the folder loop: after backfill setupRealtimeSync follows, a poll tick is over
PassEnd(tk) ==
  IF tk.mode = "backfill" THEN [tk EXCEPT !.pc = "setup", !.rec = NoRec]
  ELSE IdleTask

\* for (const folder of account.folders): openBox of folder i, or the end of the loop
FolderLoop(tk, i) ==
  IF i > cfg.nFolders THEN PassEnd(tk)
  ELSE [tk EXCEPT !.fi = i, !.pc = "openBox", !.rec = NoRec]

\* (mutant) a folder's failure ends the pass
FolderErrorAborts(tk) == PassEnd(tk)

\* the folder's catch block: log, go on with the next folder
FolderError(tk) == FolderLoop(tk, tk.fi + 1)


---------------------------------------------------------------------------
(* The processing pipeline, EmailSyncService.processNewEmail, as the        *)
(* continuation a task takes when an awaited stage completes.               *)

\* io.emit('new_email', ...) and the normal return
EmitStage(tk) == [tk EXCEPT !.pc = "ret", !.rec.emit = TRUE]

\* (mutant) the catch block rethrows to the folder loop
CaughtRethrows(tk) == FolderError([tk EXCEPT !.errLogged = TRUE])

\* the catch block of processNewEmail: log, return normally
Caught(tk) == [tk EXCEPT !.pc = "ret", !.errLogged = TRUE]

\* WebhookService.sendWebhook: skipped without a URL, else the first POST of sendWithRetry
WebhookStage(tk) ==
  IF ~cfg.webhookUrl \/ Retries < 1 THEN EmitStage(tk)
  ELSE [tk EXCEPT !.pc = "hookPost", !.rec.hook = "pending", !.rec.attempts = 1]

\* (mutant) a wait that grows by a second per attempt
DelayLinear(attempt) == (attempt + 1) * 1000

\* const delay = Math.pow(2, attempt) * 1000, in milliseconds
Delay(attempt) == 2 ^ attempt * 1000

\* (mutant) sendWebhook without its catch: the failure at the cap reaches the caller
AfterHookPostThrows(tk, ok) ==
  IF ok THEN EmitStage([tk EXCEPT !.rec.hook = "ok"])
  ELSE IF tk.rec.attempts < Retries
       THEN [tk EXCEPT !.pc = "hookDelay", !.rec.hook = "waiting",
                       !.rec.delay = Delay(tk.rec.attempts)]
       ELSE Caught([tk EXCEPT !.rec.hook = "fail"])

\* sendWithRetry after a POST: return on success, wait and retry below the cap,
\* throw at the cap (sendWebhook catches and logs)
AfterHookPost(tk, ok) ==
  IF ok THEN EmitStage([tk EXCEPT !.rec.hook = "ok"])
  ELSE IF tk.rec.attempts < Retries
       THEN [tk EXCEPT !.pc = "hookDelay", !.rec.hook = "waiting",
                       !.rec.delay = Delay(tk.rec.attempts)]
       ELSE EmitStage([tk EXCEPT !.rec.hook = "fail"])

AfterHookDelay(tk) ==
  [tk EXCEPT !.pc = "hookPost", !.rec.hook = "pending", !.rec.attempts = @ + 1]

\* sendInterestedEmailNotification: bot message, then Slack webhook message,
\* inside one try block whose catch only logs
SlackHookStage(tk) ==
  IF cfg.slackHook THEN [tk EXCEPT !.pc = "slackHook", !.rec.slackHook = "pending"]
  ELSE WebhookStage(tk)

SlackStage(tk) ==
  IF cfg.slackBot THEN [tk EXCEPT !.pc = "slackBot", !.rec.slackBot = "pending"]
  ELSE SlackHookStage(tk)

\* (mutant) a failed bot message escapes sendInterestedEmailNotification
AfterSlackBotRethrows(tk, ok) ==
  IF ok THEN SlackHookStage([tk EXCEPT !.rec.slackBot = "ok"])
  ELSE Caught([tk EXCEPT !.rec.slackBot = "fail"])

AfterSlackBot(tk, ok) ==
  IF ok THEN SlackHookStage([tk EXCEPT !.rec.slackBot = "ok"])
  ELSE WebhookStage([tk EXCEPT !.rec.slackBot = "fail"])

AfterSlackHook(tk, ok) ==
  WebhookStage([tk EXCEPT !.rec.slackHook = IF ok THEN "ok" ELSE "fail"])

\* the POSTs a pipeline run has made to a channel so far: sendWithRetry counts
\* its attempts; sendSlackMessage and sendWebhookMessage post once
Posts(r, channel) ==
  IF channel = "hook" THEN r.attempts
  ELSE IF r[channel] = "no" THEN 0 ELSE 1

\* (mutant) the label is compared without regard to case
NotifyWantedAnyCase(cat) == cat \in {"Interested", "interested"}

\* aiCategory?.category === 'Interested'
NotifyWanted(cat) == cat = Actionable

NotifyStage(tk) ==
  IF NotifyWanted(tk.rec.cat) THEN SlackStage(tk) ELSE EmitStage(tk)

\* updateEmailAI rethrows its failure, which lands in processNewEmail's catch
AfterUpdate(tk, ok) ==
  IF ok THEN NotifyStage([tk EXCEPT !.rec.update = "ok"])
  ELSE Caught([tk EXCEPT !.rec.update = "fail"])

\* (mutant) a null classification is treated as an error of the pipeline
AfterCategorizeThrowsOnNull(tk, res) ==
  IF res # "null"
  THEN [tk EXCEPT !.pc = "update", !.rec.cat = res, !.rec.update = "pending", !.rec.ts = now]
  ELSE Caught([tk EXCEPT !.rec.cat = "null"])

\* if (aiCategory) { email.aiCategory = aiCategory; await updateEmailAI(...) }
AfterCategorize(tk, res) ==
  IF res # "null"
  THEN [tk EXCEPT !.pc = "update", !.rec.cat = res, !.rec.update = "pending", !.rec.ts = now]
  ELSE NotifyStage([tk EXCEPT !.rec.cat = "null"])

\* a JavaScript number: an integer or NaN
Num(v) == [nan |-> FALSE, v |-> v]
NaN == [nan |-> TRUE, v |-> 0]

MathMax(a, b) == IF a.nan \/ b.nan THEN NaN ELSE Num(IF a.v >= b.v THEN a.v ELSE b.v)
MathMin(a, b) == IF a.nan \/ b.nan THEN NaN ELSE Num(IF a.v <= b.v THEN a.v ELSE b.v)

\* the five labels of the prompt and of the fallback pattern
Categories == {"Interested", "Meeting Booked", "Not Interested", "Spam", "Out of Office"}

\* what the engine can answer.  json: whether the content holds a {...} block
\* and whether JSON.parse accepts it; category and confidence: the fields of
\* the parsed object (category "undefined" when absent; confidence a number,
\* a text that is no number, or absent); label: the first of the five
\* labels the content holds in any letter case, as written ("none" without
\* one); pct: the digits before the first % sign (absent without one)
JsonConfidences ==
  {[type |-> "number", v |-> v] : v \in {0 - 5, 85, 150}}
    \cup {[type |-> "text", v |-> 0], [type |-> "absent", v |-> 0]}

Responses ==
  [json : {"valid"}, category : {"Interested", "Spam", "Maybe", "undefined"},
   confidence : JsonConfidences, label : {"none"}, pct : {[absent |-> TRUE, v |-> 0]}]
  \cup
  [json : {"invalid", "absent"}, category : {"undefined"},
   confidence : {[type |-> "absent", v |-> 0]},
   label : {"none", "Interested", "interested", "Out of Office"},
   pct : {[absent |-> TRUE, v |-> 0], [absent |-> FALSE, v |-> 95],
          [absent |-> FALSE, v |-> 150]}]

\* parsed.confidence || 0, as Math.max converts it to a number
OrZero(c) ==
  IF c.type = "number" THEN Num(c.v)
  ELSE IF c.type = "text" THEN NaN
  ELSE Num(0)

\* parseAIResponse: the fields of the JSON block when there is one that
\* parses (category as it is, confidence through Math.min(100, Math.max(0, .))),
\* else the fallback: the label found in the text or 'Not Interested', the
\* percentage found (parseInt) or 50
parseAIResponse(content) ==
  IF content.json = "valid"
  THEN [category |-> content.category,
        confidence |-> MathMin(Num(100), MathMax(Num(0), OrZero(content.confidence)))]
  ELSE [category |-> IF content.label = "none" THEN "Not Interested" ELSE content.label,
        confidence |-> IF content.pct.absent THEN Num(50) ELSE Num(content.pct.v)]

\* categorizeEmail: null at once when no API key, else the engine is awaited
ClassifyStage(tk) ==
  IF cfg.aiAvailable THEN [tk EXCEPT !.pc = "classify", !.rec.cat = "pending"]
  ELSE AfterCategorize(tk, "null")

\* indexEmail rethrows its failure, which lands in processNewEmail's catch
AfterIndex(tk, ok) ==
  IF ok THEN ClassifyStage([tk EXCEPT !.rec.index = "ok"])
  ELSE Caught([tk EXCEPT !.rec.index = "fail"])

\* (mutant) the pipeline starts with the classify call and never indexes
processNewEmailClassifyFirst(tk, email) ==
  ClassifyStage([tk EXCEPT !.rec = [NoRec EXCEPT !.uid = email.uid, !.folder = email.folder]])

\* entry of processNewEmail: the index call (indexEmail builds its document,
\* timestamp included, before it awaits the store)
processNewEmail(tk, email) ==
  [tk EXCEPT !.pc = "index",
             !.rec = [NoRec EXCEPT !.uid = email.uid, !.folder = email.folder,
                                   !.index = "pending", !.ts = now,
                                   !.subject = email.subject]]

---------------------------------------------------------------------------
(* The normalizer and the message loop of a pass                            *)

\* the id template `${accountId}_${message.uid}`: the account ids of the
\* configuration hold no digit after their own number, so the string is the pair
EmailId(accountId, uid) == <<accountId, uid>>

\* what parseEmailMessage returns for null (ok FALSE), and what stands for an
\* exception leaving a function (thrown TRUE)
NullMessage ==
  [ok |-> FALSE, thrown |-> FALSE, id |-> EmailId(0, 0), uid |-> 0, accountId |-> 0,
   folder |-> 0, aiCategory |-> "none", subject |-> "", to |-> <<>>, date |-> 0]

Thrown == [NullMessage EXCEPT !.thrown = TRUE]

\* the body of the try block of parseEmailMessage, run when the clock shows
\* `clock`: message.parts.find(...) and header.body throw on an unusable
\* record; without both parts the result is null; else the Message, with
\* headers.subject?.[0] || '', headers.to || [] and
\* new Date(headers.date?.[0] || Date.now())
ParseBody(raw, accountId, folder, clock) ==
  IF raw.broken THEN Thrown
  ELSE IF ~raw.wf THEN NullMessage
  ELSE [ok |-> TRUE, thrown |-> FALSE, id |-> EmailId(accountId, raw.uid),
        uid |-> raw.uid, accountId |-> accountId, folder |-> folder,
        aiCategory |-> "none",
        subject |-> IF raw.subject = "none" THEN "" ELSE raw.subject,
        to |-> IF raw.to = "none" THEN <<>> ELSE <<raw.to>>,
        date |-> IF raw.hasDate THEN raw.hdate ELSE clock]

\* (mutant) the normalizer without its try/catch
parseEmailMessageUncaught(raw, accountId, folder, clock) ==
  ParseBody(raw, accountId, folder, clock)

\* parseEmailMessage run when the clock shows `clock`: the catch around the
\* whole body logs and returns null
parseEmailMessageAt(raw, accountId, folder, clock) ==
  LET m == ParseBody(raw, accountId, folder, clock)
  IN  IF m.thrown THEN NullMessage ELSE m

\* parseEmailMessage, run now
parseEmailMessage(raw, accountId, folder) ==
  parseEmailMessageAt(raw, accountId, folder, now)

\* for (const message of messages): normalize, skip a null, pipeline the next Message
\* (msgs is the fetched array, mi the position the iteration has reached)
RECURSIVE MessageLoop(_)
MessageLoop(tk) ==
  IF tk.mi >= Len(tk.msgs) THEN FolderLoop(tk, tk.fi + 1)
  ELSE LET email == parseEmailMessage(tk.msgs[tk.mi + 1], tk.acct, tk.fi)
           nxt   == [tk EXCEPT !.mi = @ + 1]
       IN  IF email.thrown THEN FolderError(nxt)
           ELSE IF email.ok THEN processNewEmail(nxt, email) ELSE MessageLoop(nxt)

\* the records the server holds today: those it has received so far
Held(box) == SelectSeq(box, LAMBDA m : m.date <= now)

\* (mutant) a backfill that leaves out the messages of the first day of the window
SearchAfter(mode, box, since) ==
  IF mode = "poll" THEN SelectSeq(Held(box), LAMBDA m : ~m.seen)
  ELSE SelectSeq(Held(box), LAMBDA m : m.date > since)

\* what a search returns of the records a folder holds: the backfill searches
\* ['SINCE', thirtyDaysAgo], a poll tick ['UNSEEN']
Search(mode, box, since) ==
  IF mode = "poll" THEN SelectSeq(Held(box), LAMBDA m : ~m.seen)
  ELSE SelectSeq(Held(box), LAMBDA m : m.date >= since)

\* the list a search has returned, and the iteration over it
SearchResult(tk, messages) ==
  MessageLoop([tk EXCEPT !.msgs = messages, !.mi = 0, !.errLogged = FALSE])

---------------------------------------------------------------------------
(* The index store: ElasticsearchService.indexEmail and updateEmailAI.  A   *)
(* document keeps the fields of the Message that tell two messages apart    *)
(* here (account, folder), the classification and the write timestamp.      *)

\* the store with document d under id k, replacing the one it held
Put(store, k, d) ==
  [j \in (DOMAIN store) \cup {k} |-> IF j = k THEN d ELSE store[j]]

\* the document indexEmail builds from a Message at time ts
\* email.aiCategory?.confidence of a Message without a Classification
Undefined == [undefined |-> TRUE]

Document(email, ts) ==
  [id |-> email.id, accountId |-> email.accountId, folder |-> email.folder,
   subject |-> email.subject, aiCategory |-> email.aiCategory,
   aiConfidence |-> email.aiConfidence, timestamp |-> ts]

\* client.index({ id: email.id, body: document }): a full replacement
indexEmail(store, email, ts) == Put(store, email.id, Document(email, ts))

\* client.update({ id, body: { doc: { aiCategory, aiConfidence, timestamp } } }):
\* a partial update of the existing document
updateEmailAI(store, emailId, aiCategory, aiConfidence, ts) ==
  [store EXCEPT ![emailId].aiCategory = aiCategory,
                ![emailId].aiConfidence = aiConfidence, ![emailId].timestamp = ts]

\* the Message of the pipeline run a task is in
EmailOf(tk) ==
  [id |-> EmailId(tk.acct, tk.rec.uid), accountId |-> tk.acct, folder |-> tk.rec.folder,
   subject |-> tk.rec.subject, aiCategory |-> "none", aiConfidence |-> Undefined]

---------------------------------------------------------------------------
(* Actions: one per completion of an awaited call                           *)

SetTask(t, tk) == tasks' = [tasks EXCEPT ![t] = tk]

OnlyTask(t, tk) ==
  /\ SetTask(t, tk)
  /\ UNCHANGED <<cfg, mbox, isRunning, connections, connState, connBox, connAcct,
               syncIntervals, liveTimers, index, now>>

Usable(c) == c \in ConnIds /\ connState[c] = "authenticated"

\* the host calls start()
StartCall(t) ==
  /\ ~isRunning
  /\ LowestIdle(t)
  /\ isRunning' = TRUE
  /\ SetTask(t, StartLoop([IdleTask EXCEPT !.kind = "start"], 1))
  /\ UNCHANGED <<cfg, mbox, connections, connState, connBox, connAcct, syncIntervals,
               liveTimers, index, now>>

\* createIMAPConnection resolves: the connection is registered (over any
\* earlier entry of the account, which is not ended) and the folder loop
\* starts.  Connection objects are numbered in order of creation, up to MaxConns.
ConnectOk(t) ==
  /\ tasks[t].pc = "connect"
  /\ \E c \in ConnIds :
       /\ connState[c] = "none"
       /\ \A d \in ConnIds : d < c => connState[d] # "none"
       /\ connState' = [connState EXCEPT ![c] = "authenticated"]
       /\ connAcct' = [connAcct EXCEPT ![c] = tasks[t].acct]
       /\ connections' = MapSet(connections, tasks[t].acct, c)
       /\ SetTask(t, FolderLoop([tasks[t] EXCEPT !.conn = c,
                                                 !.since = now - WindowDays], 1))
  /\ UNCHANGED <<cfg, mbox, isRunning, connBox, syncIntervals, liveTimers, index, now>>

\* (mutant) the rejection escapes startAccountSync and ends the caller
ConnectFailEscapes(t) ==
  /\ tasks[t].pc = "connect"
  /\ OnlyTask(t, IdleTask)

\* createIMAPConnection rejects: performInitialSync rethrows, startAccountSync catches
ConnectFail(t) ==
  /\ tasks[t].pc = "connect"
  /\ OnlyTask(t, AfterStartAccountSync(tasks[t]))

OpenBoxOk(t) ==
  /\ tasks[t].pc = "openBox"
  /\ Usable(tasks[t].conn)
  /\ connBox' = [connBox EXCEPT ![tasks[t].conn] = tasks[t].fi]
  /\ SetTask(t, [tasks[t] EXCEPT !.pc = "search"])
  /\ UNCHANGED <<cfg, mbox, isRunning, connections, connState, connAcct, syncIntervals,
               liveTimers, index, now>>

OpenBoxFail(t) ==
  /\ tasks[t].pc = "openBox"
  /\ OnlyTask(t, FolderError(tasks[t]))

\* connection.search resolves with the records of the selected folder that
\* match the criteria; fetching with markSeen: false leaves their flags as they are
SearchOk(t) ==
  /\ tasks[t].pc = "search"
  /\ Usable(tasks[t].conn)
  /\ OnlyTask(t, SearchResult(tasks[t], Search(tasks[t].mode, mbox, tasks[t].since)))

SearchFail(t) ==
  /\ tasks[t].pc = "search"
  /\ OnlyTask(t, FolderError(tasks[t]))

\* the index call settles (the content of the store is not observed)
IndexDone(t) ==
  /\ tasks[t].pc = "index"
  /\ \E ok \in BOOLEAN : OnlyTask(t, AfterIndex(tasks[t], ok))

\* the index call settles: on success the store holds the document
IndexStored(t) ==
  /\ tasks[t].pc = "index"
  /\ \E ok \in BOOLEAN :
       /\ index' = IF ok THEN indexEmail(index, EmailOf(tasks[t]), tasks[t].rec.ts)
                         ELSE index
       /\ SetTask(t, AfterIndex(tasks[t], ok))
  /\ UNCHANGED <<cfg, mbox, isRunning, connections, connState, connBox, connAcct,
               syncIntervals, liveTimers, now>>

ClassifyDone(t) ==
  /\ tasks[t].pc = "classify"
  /\ \E res \in CategorizeResults : OnlyTask(t, AfterCategorize(tasks[t], res))

\* the engine settles, categorizeEmail of index.ts: null when the call
\* fails or the answer is empty, else parseAIResponse of the content; the
\* Classification goes into email.aiCategory
ClassifyParsed(t) ==
  /\ tasks[t].pc = "classify"
  /\ \/ OnlyTask(t, AfterCategorize(tasks[t], "null"))
     \/ \E content \in Responses :
          LET category == parseAIResponse(content)
          IN  OnlyTask(t, [AfterCategorize(tasks[t], category.category)
                             EXCEPT !.rec.conf = category.confidence])

\* the classification update settles (the content of the store is not observed)
UpdateDone(t) ==
  /\ tasks[t].pc = "update"
  /\ \E ok \in BOOLEAN : OnlyTask(t, AfterUpdate(tasks[t], ok))

\* the classification update settles: it succeeds only on an existing
\* document, which then carries the label
UpdateStored(t) ==
  /\ tasks[t].pc = "update"
  /\ \E ok \in BOOLEAN :
       /\ ok => EmailId(tasks[t].acct, tasks[t].rec.uid) \in DOMAIN index
       /\ index' = IF ok THEN updateEmailAI(index, EmailId(tasks[t].acct, tasks[t].rec.uid),
                                            tasks[t].rec.cat, tasks[t].rec.conf,
                                            tasks[t].rec.ts)
                         ELSE index
       /\ SetTask(t, AfterUpdate(tasks[t], ok))
  /\ UNCHANGED <<cfg, mbox, isRunning, connections, connState, connBox, connAcct,
               syncIntervals, liveTimers, now>>

SlackBotDone(t) ==
  /\ tasks[t].pc = "slackBot"
  /\ \E ok \in BOOLEAN : OnlyTask(t, AfterSlackBot(tasks[t], ok))

SlackHookDone(t) ==
  /\ tasks[t].pc = "slackHook"
  /\ \E ok \in BOOLEAN : OnlyTask(t, AfterSlackHook(tasks[t], ok))

HookPostDone(t) ==
  /\ tasks[t].pc = "hookPost"
  /\ \E ok \in BOOLEAN : OnlyTask(t, AfterHookPost(tasks[t], ok))

HookDelayDone(t) ==
  /\ tasks[t].pc = "hookDelay"
  /\ OnlyTask(t, AfterHookDelay(tasks[t]))

\* processNewEmail has returned to the message loop
PipelineReturn(t) ==
  /\ tasks[t].pc = "ret"
  /\ OnlyTask(t, MessageLoop(tasks[t]))

\* setupRealtimeSync: a new interval timer, registered over any earlier one
\* of the account (which is not cleared and stays live), up to MaxTimers
SetupRealtimeSync(t) ==
  /\ tasks[t].pc = "setup"
  /\ liveTimers[tasks[t].acct] < MaxTimers
  /\ liveTimers' = [liveTimers EXCEPT ![tasks[t].acct] = @ + 1]
  /\ syncIntervals' = syncIntervals \cup {tasks[t].acct}
  /\ SetTask(t, AfterStartAccountSync(tasks[t]))
  /\ UNCHANGED <<cfg, mbox, isRunning, connections, connState, connBox, connAcct, index, now>>

\* (mutant) a timer callback that returns without polling
checkForNewEmailsSkips(tk, c) == IdleTask

\* checkForNewEmails: with no registered connection the account is started
\* again (startAccountSync), else the folder loop runs on the registered one
checkForNewEmails(tk, c) ==
  IF c = 0 THEN [tk EXCEPT !.mode = "backfill", !.pc = "connect"]
  ELSE FolderLoop([tk EXCEPT !.mode = "poll", !.conn = c], 1)

\* an interval timer of account a fires while the service is running
\* (the callback returns at once when it is not)
TimerFire(t) ==
  /\ isRunning
  /\ LowestIdle(t)
  /\ \E a \in Accounts :
       /\ liveTimers[a] > 0
       /\ OnlyTask(t, checkForNewEmails([IdleTask EXCEPT !.kind = "tick", !.acct = a],
                                        MapGet(connections, a)))

\* stop(), after the last connection.end(): every registered timer is
\* cleared, both registries are emptied
ClearRegistries ==
  /\ liveTimers' = [a \in Accounts |->
                      IF a \in syncIntervals THEN liveTimers[a] - 1 ELSE liveTimers[a]]
  /\ syncIntervals' = {}
  /\ connections' = <<>>

\* (mutant) stop() without its test of isRunning
StopCallUnguarded(t) ==
  /\ LowestIdle(t)
  /\ \A u \in TaskIds : tasks[u].kind # "stop"
  /\ isRunning' = FALSE
  /\ IF connections = <<>>
     THEN /\ ClearRegistries
          /\ UNCHANGED tasks
     ELSE /\ SetTask(t, [IdleTask EXCEPT !.kind = "stop", !.pc = "end", !.fi = 1,
                                         !.conn = connections[1][2]])
          /\ UNCHANGED <<connections, syncIntervals, liveTimers>>
  /\ UNCHANGED <<cfg, mbox, connState, connBox, connAcct, index, now>>

\* the host calls stop().  Not running: it returns at once.  Running:
\* isRunning is reset and the first registered connection is ended; with no
\* connection stop() completes at once.  (At most one stop() that found the
\* service running is in flight in the model.)
StopCall(t) ==
  \/ /\ ~isRunning
     /\ UNCHANGED vars
  \/ /\ isRunning
     /\ LowestIdle(t)
     /\ \A u \in TaskIds : tasks[u].kind # "stop"
     /\ isRunning' = FALSE
     /\ IF connections = <<>>
        THEN /\ ClearRegistries
             /\ UNCHANGED tasks
        ELSE /\ SetTask(t, [IdleTask EXCEPT !.kind = "stop", !.pc = "end", !.fi = 1,
                                            !.conn = connections[1][2]])
             /\ UNCHANGED <<connections, syncIntervals, liveTimers>>
     /\ UNCHANGED <<cfg, mbox, connState, connBox, connAcct, index, now>>

\* connection.end() has settled (its error is only logged): the next entry
\* of the registry is ended, or stop() finishes.  The Map iterator reads the
\* registry as it is when the loop resumes, entries added meanwhile included.
EndDone(t) ==
  /\ tasks[t].pc = "end"
  /\ connState' = [connState EXCEPT ![tasks[t].conn] = "ended"]
  /\ IF tasks[t].fi < Len(connections)
     THEN /\ SetTask(t, [tasks[t] EXCEPT !.fi = @ + 1,
                                         !.conn = connections[tasks[t].fi + 1][2]])
          /\ UNCHANGED <<connections, syncIntervals, liveTimers>>
     ELSE /\ ClearRegistries
          /\ SetTask(t, IdleTask)
  /\ UNCHANGED <<cfg, mbox, isRunning, connBox, connAcct, index, now>>

\* the server or the network drops a connection: the object stays where it
\* is registered (no 'close' or 'error' listener is installed on it)
ConnDrop(c) ==
  /\ connState[c] = "authenticated"
  /\ connState' = [connState EXCEPT ![c] = "disconnected"]
  /\ UNCHANGED <<cfg, mbox, isRunning, connections, connBox, connAcct, syncIntervals,
               liveTimers, index, now, tasks>>

\* time passes
ClockTick ==
  /\ now < MaxClock
  /\ now' = now + 1
  /\ UNCHANGED <<cfg, mbox, isRunning, connections, connState, connBox, connAcct,
               syncIntervals, liveTimers, index, tasks>>

\* indexEmail called with a Message and resolved
IndexEmailCall(email) ==
  /\ index' = indexEmail(index, email, now)
  /\ UNCHANGED <<cfg, mbox, isRunning, connections, connState, connBox, connAcct,
               syncIntervals, liveTimers, now, tasks>>

PipelineStep(t) ==
  \/ IndexDone(t) \/ ClassifyDone(t) \/ UpdateDone(t)
  \/ SlackBotDone(t) \/ SlackHookDone(t)
  \/ HookPostDone(t) \/ HookDelayDone(t)
  \/ PipelineReturn(t)

PassStep(t) ==
  \/ ConnectOk(t) \/ ConnectFail(t)
  \/ OpenBoxOk(t) \/ OpenBoxFail(t)
  \/ SearchOk(t) \/ SearchFail(t)
  \/ SetupRealtimeSync(t)

---------------------------------------------------------------------------
(* One start() call running alone, over every configuration: the           *)
(* specification of the claims about a single pass and a single pipeline   *)
(* run.                                                                     *)

InitState ==
  /\ isRunning = FALSE
  /\ connections = <<>>
  /\ connState = [c \in ConnIds |-> "none"]
  /\ connBox = [c \in ConnIds |-> 0]
  /\ connAcct = [c \in ConnIds |-> 0]
  /\ syncIntervals = {}
  /\ index = <<>>
  /\ now = 0
  /\ liveTimers = [a \in Accounts |-> 0]
  /\ tasks = [t \in TaskIds |-> IdleTask]

PipeInit ==
  /\ cfg \in Configs([Accounts -> BOOLEAN], 1..MaxFolders, BOOLEAN, BOOLEAN, BOOLEAN, BOOLEAN)
  /\ mbox \in UNION { RawLists(n, {FALSE}) : n \in 0..MaxMsgs }
  /\ InitState

PipeNext == \E t \in TaskIds : StartCall(t) \/ PassStep(t) \/ PipelineStep(t)

PipeSpec == PipeInit /\ [][PipeNext]_vars

---------------------------------------------------------------------------
(* The service with its host and its timers: start() and stop() called at  *)
(* any time, timers firing while earlier ticks are still in flight.  The   *)
(* service is configured without an API key (categorizeEmail returns null  *)
(* without awaiting anything), so a pipeline run awaits the index call     *)
(* only and the classify and notify completions never occur.               *)

Init ==
  /\ cfg \in Configs([Accounts -> BOOLEAN], {1}, {FALSE}, {FALSE}, {FALSE}, {FALSE})
  /\ mbox \in RawLists(1, {FALSE})
  /\ InitState

Next ==
  \E t \in TaskIds :
    \/ StartCall(t) \/ StopCall(t) \/ EndDone(t) \/ TimerFire(t)
    \/ PassStep(t) \/ IndexDone(t) \/ PipelineReturn(t)

Spec == Init /\ [][Next]_vars

(* The host alone on one account: start() and stop() called at any time,   *)
(* also while earlier calls are in flight; the timers armed never fire.    *)

StopInit ==
  /\ cfg \in Configs({[a \in Accounts |-> a = 1]}, {1}, {FALSE}, {FALSE}, {FALSE}, {FALSE})
  /\ mbox \in RawLists(1, {FALSE})
  /\ InitState

StopNext ==
  \E t \in TaskIds :
    \/ StartCall(t) \/ StopCall(t) \/ EndDone(t)
    \/ PassStep(t) \/ IndexDone(t) \/ PipelineReturn(t)

StopSpec == StopInit /\ [][StopNext]_vars

(* The service left to itself after start(): the host never calls stop(),  *)
(* every awaited call eventually settles, every live timer keeps firing,   *)
(* and session creation, if attempted again and again, eventually          *)
(* succeeds.                                                               *)

TaskStep(t) == PassStep(t) \/ IndexDone(t) \/ PipelineReturn(t)

LiveNext == \E t \in TaskIds : StartCall(t) \/ TimerFire(t) \/ TaskStep(t)

LiveSpec ==
  /\ Init
  /\ [][LiveNext]_vars
  /\ \A t \in TaskIds : WF_vars(TaskStep(t)) /\ SF_vars(ConnectOk(t))
  /\ WF_vars(\E t \in TaskIds : TimerFire(t))

(* One account polled under the same assumptions, classifier off, with one *)
(* readable message that is on the server from the start or arrives a day  *)
(* later, read or unread: every awaited call settles, the timer keeps      *)
(* firing, and selecting and searching a folder on a connection that stays *)
(* authenticated eventually succeed.                                       *)

WatchInit ==
  /\ cfg \in Configs({[a \in Accounts |-> a = 1]}, {1}, {FALSE}, {FALSE}, {FALSE}, {FALSE})
  /\ mbox \in { <<RawRecord(1, TRUE, seen, FALSE, "Hello", "x@y", TRUE, d)>> :
                 seen \in BOOLEAN, d \in {0, 1} }
  /\ InitState

WatchStep(t) == PassStep(t) \/ IndexDone(t) \/ PipelineReturn(t)

WatchNext ==
  \/ \E t \in TaskIds : StartCall(t) \/ TimerFire(t) \/ WatchStep(t)
  \/ \E c \in ConnIds : ConnDrop(c)
  \/ ClockTick

WatchSpec ==
  /\ WatchInit
  /\ [][WatchNext]_vars
  /\ \A t \in TaskIds :
       WF_vars(WatchStep(t)) /\ SF_vars(OpenBoxOk(t)) /\ SF_vars(SearchOk(t))
  /\ WF_vars(\E t \in TaskIds : TimerFire(t))

(* One account polling with the classifier configured and no notification  *)
(* channel: start(), timers firing (also while an earlier tick is in       *)
(* flight), connections dropped by the server at any time.  Here the        *)
(* content of the index store is part of the state.                         *)

PollInit ==
  /\ cfg \in Configs({[a \in Accounts |-> a = 1]}, 1..MaxFolders, {TRUE}, {FALSE}, {FALSE}, {FALSE})
  /\ mbox \in RawLists(1, BOOLEAN)
  /\ InitState

PollNext ==
  \/ \E t \in TaskIds :
        \/ StartCall(t) \/ TimerFire(t) \/ PassStep(t)
        \/ IndexStored(t) \/ ClassifyDone(t) \/ UpdateStored(t) \/ PipelineReturn(t)
  \/ \E c \in ConnIds : ConnDrop(c)

PollSpec == PollInit /\ [][PollNext]_vars

(* Two accounts started and polled, ticks overlapping, connections         *)
(* dropping, no stop().                                                     *)

FrameInit ==
  /\ cfg \in Configs({[a \in Accounts |-> TRUE]}, {1}, {FALSE}, {FALSE}, {FALSE}, {FALSE})
  /\ mbox \in RawLists(1, {FALSE})
  /\ InitState

FrameNext ==
  \/ \E t \in TaskIds :
        \/ StartCall(t) \/ TimerFire(t) \/ PassStep(t)
        \/ IndexDone(t) \/ PipelineReturn(t)
  \/ \E c \in ConnIds : ConnDrop(c)

FrameSpec == FrameInit /\ [][FrameNext]_vars

(* One backfill of one folder with the classifier on and every channel     *)
(* off, over every answer of the engine.                                   *)

ClassifyInit ==
  /\ cfg \in Configs({[a \in Accounts |-> a = 1]}, {1}, {TRUE}, {FALSE}, {FALSE}, {FALSE})
  /\ mbox \in UNION { RawLists(n, {FALSE}) : n \in 1..MaxMsgs }
  /\ InitState

ClassifyNext ==
  \/ StartCall(1) \/ PassStep(1) \/ IndexStored(1) \/ ClassifyParsed(1)
  \/ UpdateStored(1) \/ PipelineReturn(1)

ClassifySpec == ClassifyInit /\ [][ClassifyNext]_vars

(* One account with the classifier and the Slack webhook on: start(), then *)
(* poll ticks that may overlap, each run writing the store.                *)

BroadcastInit ==
  /\ cfg \in Configs({[a \in Accounts |-> a = 1]}, {1}, {TRUE}, {FALSE}, {TRUE}, {FALSE})
  /\ mbox = <<Raw(1, TRUE, FALSE)>>
  /\ InitState

BroadcastNext ==
  \E t \in TaskIds :
    \/ StartCall(t) \/ TimerFire(t) \/ PassStep(t)
    \/ IndexStored(t) \/ ClassifyParsed(t) \/ UpdateStored(t)
    \/ SlackHookDone(t) \/ PipelineReturn(t)

BroadcastSpec == BroadcastInit /\ [][BroadcastNext]_vars

(* The index service alone: indexEmail called at any time with any Message  *)
(* of the first account (classified or not, as the callers and the test     *)
(* suite do).                                                               *)

Emails ==
  { [id |-> EmailId(1, u), accountId |-> 1, folder |-> f, subject |-> "Hello",
     aiCategory |-> c, aiConfidence |-> IF c = "none" THEN Undefined ELSE Num(85)] :
      u \in 1..MaxMsgs, f \in 1..MaxFolders, c \in {"none", Actionable} }

IndexInit ==
  /\ cfg \in Configs({[a \in Accounts |-> TRUE]}, {MaxFolders}, {FALSE}, {FALSE}, {FALSE}, {FALSE})
  /\ mbox = <<>>
  /\ InitState

IndexNext == ClockTick \/ \E email \in Emails : IndexEmailCall(email)

IndexSpec == IndexInit /\ [][IndexNext]_vars

(* One account whose passes run one after the other: start(), then the     *)
(* timer firing only when no earlier tick is in flight.                    *)

SeqInit ==
  /\ cfg \in Configs({[a \in Accounts |-> a = 1]}, 1..MaxFolders, {FALSE}, {FALSE}, {FALSE}, {FALSE})
  /\ mbox \in RawLists(1, BOOLEAN)
  /\ InitState

\* every call chain runs in the first slot: a call that finds it taken waits
SeqNext ==
  \/ StartCall(1) \/ TimerFire(1) \/ PassStep(1)
  \/ IndexDone(1) \/ PipelineReturn(1)

SeqSpec == SeqInit /\ [][SeqNext]_vars

---------------------------------------------------------------------------
(* One backfill over a folder of two records while the days pass: the      *)
(* first record ranges over every shape and date the normalizer and the    *)
(* search tell apart, the second is a readable record of day 0, with or    *)
(* without a subject.                                                      *)

\* days a record was received on: before the window of a backfill of day 0,
\* on its first day, on day 0, and on the day after
FetchDates == {0 - WindowDays - 1, 0 - WindowDays, 0, 1}

FetchRaws ==
  { RawRecord(1, wf, FALSE, broken, subject, to, hasDate, d) :
      wf \in BOOLEAN, broken \in BOOLEAN, subject \in {"none", "Hello"},
      to \in {"none", "x@y"}, hasDate \in BOOLEAN, d \in FetchDates }

FetchInit ==
  /\ cfg \in Configs({[a \in Accounts |-> a = 1]}, {1}, {FALSE}, {FALSE}, {FALSE}, {FALSE})
  /\ mbox \in { <<r, RawRecord(2, TRUE, FALSE, FALSE, subject, "x@y", TRUE, 0)>> :
                 r \in FetchRaws, subject \in {"none", "Hello"} }
  /\ InitState

FetchNext ==
  \/ ClockTick
  \/ StartCall(1) \/ PassStep(1) \/ IndexStored(1) \/ PipelineReturn(1)

FetchSpec == FetchInit /\ [][FetchNext]_vars

---------------------------------------------------------------------------
(* Claims about one pipeline run and one pass (PipeSpec).  rec is the       *)
(* record of the pipeline run a task is in, kept until the next run or      *)
(* folder starts; pc = "ret" is the run just returned.                      *)

SlackConfigured == cfg.slackBot \/ cfg.slackHook
SlackAttempted(r) == r.slackBot # "no" \/ r.slackHook # "no"
HookAttempted(r) == r.hook # "no"
ClassifyReturned(r) == r.cat \notin {"no", "pending"}

\* C1: in every pipeline run the index call has been made (and has completed)
\* before the classify call is made, and the classify call has returned
\* before any channel delivery attempt or live broadcast of that run.
PipelineOrder ==
  \A t \in TaskIds :
    LET r == tasks[t].rec IN
    /\ r.cat # "no" => r.index \in {"ok", "fail"}
    /\ (SlackAttempted(r) \/ HookAttempted(r) \/ r.emit) => ClassifyReturned(r)

PipelineOrderWitness ==
  \E t \in TaskIds :
    LET r == tasks[t].rec IN
    /\ tasks[t].pc = "ret" /\ r.index = "ok" /\ r.cat = Actionable
    /\ SlackAttempted(r) /\ HookAttempted(r) /\ r.emit

\* C2: a pipeline run whose index stage failed has still submitted the
\* message to the classify stage and to the broadcast stage when it returns.
IndexFailureDoesNotAbort ==
  \A t \in TaskIds :
    (tasks[t].pc = "ret" /\ tasks[t].rec.index = "fail")
      => (tasks[t].rec.cat # "no" /\ tasks[t].rec.emit)

\* C3: every pipeline run has published the message to the live-update
\* channel when it returns, whatever the outcome of the earlier stages.
BroadcastAlways ==
  \A t \in TaskIds : tasks[t].pc = "ret" => tasks[t].rec.emit

\* C4: a delivery attempt on a notification channel (Slack bot message, Slack
\* webhook message, generic webhook POST) is made only in a run whose
\* classification label is exactly 'Interested'.
NotifyOnlyIfActionable ==
  \A t \in TaskIds :
    (SlackAttempted(tasks[t].rec) \/ HookAttempted(tasks[t].rec))
      => tasks[t].rec.cat = Actionable

NotifyOnlyIfActionableWitness ==
  /\ \E t \in TaskIds : tasks[t].rec.cat = Actionable /\ HookAttempted(tasks[t].rec)
                        /\ SlackAttempted(tasks[t].rec)

\* C5: a pipeline run whose classify stage returned 'Interested' has made at
\* least one delivery attempt on every configured channel when it returns.
AtLeastOnceNotify ==
  \A t \in TaskIds :
    (tasks[t].pc = "ret" /\ tasks[t].rec.cat = Actionable)
      => /\ SlackConfigured => SlackAttempted(tasks[t].rec)
         /\ cfg.webhookUrl => HookAttempted(tasks[t].rec)

\* C6: once a Slack delivery has failed the generic webhook (when configured)
\* is still attempted, and a run in which a channel delivery failed does not
\* end in the pipeline's catch block: it goes on to the broadcast.
ChannelIsolation ==
  \A t \in TaskIds :
    LET r == tasks[t].rec IN
    /\ (r.slackBot = "fail" \/ r.slackHook = "fail")
         => (cfg.webhookUrl => HookAttempted(r))
    /\ (tasks[t].pc = "ret"
        /\ (r.slackBot = "fail" \/ r.slackHook = "fail" \/ r.hook = "fail"))
         => r.emit

ChannelIsolationWitness ==
  \E t \in TaskIds :
    LET r == tasks[t].rec IN
    /\ tasks[t].pc = "ret" /\ r.slackBot = "fail" /\ r.hook \in {"ok", "fail"} /\ r.emit

FaultIsolation ==
  \A t \in TaskIds :
    tasks[t].pc \in {"openBox", "search", "setup"} => tasks[t].mi = Len(tasks[t].msgs)

\* message B (second of the list) is in the pipeline after a pipeline failure
\* for message A in the same pass
FaultIsolationWitness ==
  \E t \in TaskIds :
    /\ tasks[t].errLogged /\ tasks[t].mi = 2
    /\ tasks[t].pc = "ret" /\ tasks[t].rec.cat = Actionable /\ tasks[t].rec.emit
    /\ HookAttempted(tasks[t].rec)

---------------------------------------------------------------------------
(* Claims about the service as a whole                                      *)

\* stop() has returned and start() has not been called since (or start() was
\* never called): the service is not running and no stop() is in flight
Stopped == ~isRunning /\ \A t \in TaskIds : tasks[t].kind # "stop"

\* positions at which a task has just issued a connection attempt, a fetch
\* (openBox, search) or a pipeline stage
ActivityPcs == {"connect", "openBox", "search", "index", "classify", "update",
                "slackBot", "slackHook", "hookPost"}

\* C9: once stop() has returned, and until start() is called again, no task
\* issues a further connection attempt, fetch or pipeline stage.
NoActivityAfterStop ==
  [][(Stopped /\ ~isRunning')
       => \A t \in TaskIds : tasks'[t] = tasks[t] \/ tasks'[t].pc \notin ActivityPcs]_vars

\* an account is polling: its interval timer is registered (setupRealtimeSync
\* runs only after the backfill pass)
Polling(a) == a \in syncIntervals

AttemptingSession(a) == \E t \in TaskIds : tasks[t].pc = "connect" /\ tasks[t].acct = a

\* C10: whenever session creation is attempted for an account, the account
\* eventually reaches polling, even if attempts fail before one would succeed.
ReconnectConvergence ==
  \A a \in Accounts : AttemptingSession(a) ~> Polling(a)

---------------------------------------------------------------------------
(* Claims about sessions, passes and the index (PollSpec, Spec, PipeSpec)   *)

\* a step in which a poll tick finds its session invalid: its openBox or its
\* search settles (by failing) on a connection that is not authenticated
FindsSessionInvalid(t) ==
  /\ tasks[t].mode = "poll" /\ tasks[t].pc \in {"openBox", "search"}
  /\ ~Usable(tasks[t].conn)
  /\ tasks'[t] # tasks[t]

\* C11: a poll tick that finds the account's session invalid moves the account
\* into reconnection: the tick goes on to create a new session, or at least
\* the stale connection is no longer the registered one (so that the next tick
\* reconnects); it does not just go on with the stale session.
InvalidSessionReconnects ==
  [][\A t \in TaskIds :
       FindsSessionInvalid(t)
         => \/ tasks'[t].pc = "connect"
            \/ MapGet(connections', tasks[t].acct) # tasks[t].conn]_vars

\* the connections created for account a and not closed
Unclosed(a) == {c \in ConnIds : connAcct[c] = a /\ connState[c] = "authenticated"}

\* C12: in every reachable state at most one unclosed connection exists per
\* account: a new connection is created and registered only after any
\* previous connection of the account has been closed.
OneSessionPerAccount ==
  \A a \in Accounts : Cardinality(Unclosed(a)) <= 1

\* positions inside the folder loop of a pass (backfill or poll tick)
PassPcs == {"openBox", "search", "index", "classify", "update", "slackBot",
            "slackHook", "hookPost", "hookDelay", "ret"}

InPass(t, a) == tasks[t].acct = a /\ tasks[t].pc \in PassPcs

\* C13: at most one fetch pass (backfill or poll tick) is in flight per
\* account at any time, so no connection is used by two passes at once.
OnePassPerAccount ==
  \A a \in Accounts : \A t, u \in TaskIds : (InPass(t, a) /\ InPass(u, a)) => t = u

\* the store already holds the document of the message a task is pipelining
\* (same id, same folder): the message has been through the pipeline before
AlreadyIndexed(tk) ==
  LET id == EmailId(tk.acct, tk.rec.uid)
  IN  id \in DOMAIN index /\ index[id].folder = tk.rec.folder

\* C14: a poll tick does not pipeline a message that backfill or an earlier
\* tick has already pipelined (the mailbox does not change in this model):
\* no tick enters the pipeline with a message whose document is in the index.
NoRepeatedPipeline ==
  \A t \in TaskIds :
    (tasks[t].mode = "poll" /\ tasks[t].pc = "index") => ~AlreadyIndexed(tasks[t])

\* C15: the id the normalizer builds is unique per message (account, folder,
\* uid): no step of the index store replaces the document of one message by
\* the document of a message of another account or folder.
IdUniquePerMessage ==
  [][\A id \in DOMAIN index :
       /\ id \in DOMAIN index'
       /\ index'[id].accountId = index[id].accountId
       /\ index'[id].folder = index[id].folder]_vars

\* C16: once the document of a message carries a classification, no step
\* leaves it without one: the classification is replaced, never cleared.
ClassificationNeverCleared ==
  [][\A id \in DOMAIN index :
       index[id].aiCategory # "none"
         => (id \in DOMAIN index' /\ index'[id].aiCategory # "none")]_vars

\* C17: indexing a message again, when the store holds the document that
\* indexing this very message wrote, leaves the store as it is: one document
\* under the id, with identical content.
IndexTwiceSameAsOnce ==
  \A email \in Emails :
    (email.id \in DOMAIN index
     /\ index[email.id] = Document(email, index[email.id].timestamp))
      => indexEmail(index, email, now) = index

\* nothing exists for account a: no task works on it, no connection was
\* created or registered for it, no timer was armed for it
NothingFor(a) ==
  /\ \A t \in TaskIds : tasks[t].acct # a
  /\ \A c \in ConnIds : connAcct[c] # a
  /\ ~MapHas(connections, a)
  /\ a \notin syncIntervals /\ liveTimers[a] = 0

\* the account a start() call is working on, 0 before its first one
StartAcct(tk) == IF tk.kind = "start" THEN tk.acct ELSE 0

\* C18: start() launches a sync for exactly the accounts with user and
\* password: whenever it moves on to an account, that account has credentials
\* and every account it passed over has none; when it returns, no account
\* with credentials is left; and an account without credentials never gets a
\* task, a connection or a timer.
StartExactlyCredentialed ==
  [][/\ \A t \in TaskIds :
          LET old == tasks[t]
              new == tasks'[t]
          IN  /\ (new.kind = "start" /\ StartAcct(old) # new.acct)
                   => /\ cfg.creds[new.acct]
                      /\ \A b \in Accounts :
                           (StartAcct(old) < b /\ b < new.acct) => ~cfg.creds[b]
              /\ (old.kind = "start" /\ new.kind # "start")
                   => \A b \in Accounts : b > old.acct => ~cfg.creds[b]
     /\ (~isRunning /\ isRunning' /\ tasks' = tasks)
          => \A b \in Accounts : ~cfg.creds[b]
     /\ \A a \in Accounts : ~cfg.creds[a] => NothingFor(a)']_vars

\* start() has returned; the second account is synced (connection, timer),
\* the first one, without credentials, was skipped
StartExactlyCredentialedWitness ==
  /\ ~cfg.creds[1] /\ cfg.creds[2]
  /\ isRunning /\ \A t \in TaskIds : tasks[t] = IdleTask
  /\ MapHas(connections, 2) /\ 2 \in syncIntervals /\ liveTimers[2] = 1
  /\ NothingFor(1)

\* C19: a failure of one account during start() does not stop start(): when
\* createIMAPConnection rejects, the call goes on to the connection attempt
\* of the next account with credentials (and returns only if there is none);
\* when a folder of the backfill fails (or yields nothing), the call goes on
\* with the next folder or with arming the account's timer.
StartSurvivesAccountFailure ==
  [][\A t \in TaskIds :
       LET old == tasks[t]
           new == tasks'[t]
       IN  /\ (old.kind = "start" /\ old.pc = "connect" /\ new # old
                /\ connState' = connState)
                => \A b \in Accounts :
                     (b > old.acct /\ cfg.creds[b])
                       => /\ new.kind = "start" /\ new.pc = "connect"
                          /\ old.acct < new.acct /\ new.acct <= b
           /\ (old.kind = "start" /\ old.pc \in {"openBox", "search"} /\ new # old
                /\ new.pc \notin {"search", "index"})
                => /\ new.kind = "start" /\ new.acct = old.acct
                   /\ new.pc \in {"openBox", "setup"}]_vars

\* the first account failed to connect, the second one is connected,
\* backfilled and polling
StartSurvivesAccountFailureWitness ==
  /\ cfg.creds[1] /\ cfg.creds[2]
  /\ \A c \in ConnIds : connAcct[c] # 1
  /\ MapHas(connections, 2) /\ 2 \in syncIntervals /\ liveTimers[2] = 1
  /\ \A t \in TaskIds : tasks[t] = IdleTask

\* C20: stop() is idempotent: a call made while the service is not running
\* changes nothing (no connection is closed, no timer or registry touched),
\* and every call leaves the service not running, so that a second call in a
\* row is such a call and leaves the state the first one left.
StopIdempotent ==
  [][(\E t \in TaskIds : StopCall(t))
       => /\ ~isRunning => UNCHANGED vars
          /\ ~isRunning']_vars

\* the service has been stopped and still has a registered, open connection
\* and a live timer: a further stop() here has something it could close
StopIdempotentWitness ==
  /\ Stopped
  /\ connections # <<>> /\ Usable(connections[1][2])
  /\ \E a \in Accounts : liveTimers[a] > 0

---------------------------------------------------------------------------
(* Claims about status, backfill, folders and the normalizer               *)

\* start() has launched account a: it has credentials and the start() call
\* has gone past it (or has returned)
Launched(a) ==
  /\ cfg.creds[a] /\ isRunning
  /\ \A t \in TaskIds : tasks[t].kind = "start" => tasks[t].acct > a

\* C21: the status report has, for every account start() launched, an entry
\* that is true exactly when the account has a registered connection in
\* state 'authenticated', and false otherwise.
StatusReportsEveryAccount ==
  \A a \in Accounts :
    Launched(a)
      => /\ a \in DOMAIN getConnectionStatus
         /\ getConnectionStatus[a]
              = (MapHas(connections, a) /\ Usable(MapGet(connections, a)))

\* C22: the backfill of an account runs once per service start, before its
\* first poll tick; no later event runs it again: a timer callback never
\* gets into a backfill pass.
BackfillOnlyAtStart ==
  \A t \in TaskIds : tasks[t].kind = "tick" => tasks[t].mode # "backfill"

\* C23: a failure while selecting or fetching one folder is contained to that
\* folder, in a backfill as in a poll tick: when openBox or search of folder
\* i settles without messages to process, the pass goes on to select folder
\* i + 1, and it ends only after the last configured folder.
FolderFailureContained ==
  [][\A t \in TaskIds :
       LET old == tasks[t]
           new == tasks'[t]
       IN  (old.pc \in {"openBox", "search"} /\ new # old
            /\ new.pc \notin {"search", "index"})
             => IF old.fi < cfg.nFolders
                THEN /\ new.pc = "openBox" /\ new.fi = old.fi + 1
                     /\ new.kind = old.kind /\ new.acct = old.acct
                     /\ new.conn = old.conn /\ new.mode = old.mode
                ELSE new.pc \in {"setup", "idle"}]_vars

\* a pass is selecting the second folder on a connection on which no folder
\* has been selected: selecting the first one failed
FolderFailureContainedWitness ==
  \E t \in TaskIds :
    /\ tasks[t].pc = "openBox" /\ tasks[t].fi = 2 /\ tasks[t].mode = "poll"
    /\ Usable(tasks[t].conn) /\ connBox[tasks[t].conn] = 0

---------------------------------------------------------------------------
(* Claims about the backfill window and the normalizer (FetchSpec)          *)

InSeq(r, s) == \E i \in 1..Len(s) : s[i] = r

\* the backfill of task t has fetched the records of its folder: since is
\* thirtyDaysAgo, so since + WindowDays is the day the backfill started
Fetched(t) == tasks[t].mode = "backfill" /\ tasks[t].msgs # <<>>

Usual(raw) == raw.wf /\ ~raw.broken

\* C25: the normalizer never throws.  It returns null for a record that lacks
\* HEADER or TEXT or is unusable, and for any other record a Message whose
\* missing subject and recipients default to '' and []; the message loop
\* skips the nulls and hands every Message, one without a subject included,
\* to the index stage.
NormalizerNeverThrows ==
  [][/\ \A i \in 1..Len(mbox) : \A a \in Accounts : \A f \in 1..MaxFolders :
          LET raw == mbox[i]
              m   == parseEmailMessage(raw, a, f)
          IN  /\ ~m.thrown
              /\ ~Usual(raw) => m = NullMessage
              /\ Usual(raw)
                   => /\ m.ok /\ m.id = EmailId(a, raw.uid) /\ m.folder = f
                      /\ raw.subject = "none" => m.subject = ""
                      /\ raw.subject # "none" => m.subject = raw.subject
                      /\ raw.to = "none" => m.to = <<>>
     /\ \A t \in TaskIds :
          LET old   == tasks[t]
              new   == tasks'[t]
              first == IF new.msgs = old.msgs THEN old.mi + 1 ELSE 1
          IN  (new # old /\ new.mi > 0 /\ (new.mi # old.mi \/ new.msgs # old.msgs))
                => /\ \A j \in first..(new.mi - 1) : ~Usual(new.msgs[j])
                   /\ IF new.pc = "index"
                      THEN /\ Usual(new.msgs[new.mi])
                           /\ new.rec.uid = new.msgs[new.mi].uid
                           /\ new.rec.subject
                                = IF new.msgs[new.mi].subject = "none" THEN ""
                                  ELSE new.msgs[new.mi].subject
                      ELSE /\ new.mi = Len(new.msgs)
                           /\ ~Usual(new.msgs[new.mi])]_vars

\* the store holds the document of a message that came without a subject,
\* after a record that could not be read was skipped
NormalizerNeverThrowsWitness ==
  /\ \E k \in DOMAIN index : index[k].subject = ""
  /\ \E i \in 1..Len(mbox) : mbox[i].broken

\* C26: the normalizer is deterministic: for the same raw record, account
\* id and folder it returns the same Message, timestamp included, whenever
\* it is invoked (at any two times the clock has shown so far).
NormalizerDeterministic ==
  \A i \in 1..Len(mbox) : \A a \in Accounts : \A f \in 1..MaxFolders :
    \A c1 \in 0..now : \A c2 \in 0..now :
      parseEmailMessageAt(mbox[i], a, f, c1) = parseEmailMessageAt(mbox[i], a, f, c2)

---------------------------------------------------------------------------
(* Claims about notification delivery and classifications                  *)

\* C27: delivery to every notification channel, the two Slack channels as
\* well as the generic webhook, is retried on failure up to the cap: a
\* channel is given up only after Retries attempts.
EveryChannelRetried ==
  \A t \in TaskIds :
    \A channel \in {"slackBot", "slackHook", "hook"} :
      tasks[t].rec[channel] = "fail" => Posts(tasks[t].rec, channel) = Retries

\* a Classification is attached to the Message of the run
Classified(r) == r.cat \notin {"no", "pending", "null"}

\* C28: every Classification the classifier produces, on the JSON path as on
\* the fallback path, has a confidence that is a number in [0, 100].
ConfidenceInRange ==
  \A t \in TaskIds :
    Classified(tasks[t].rec)
      => /\ ~tasks[t].rec.conf.nan
         /\ 0 <= tasks[t].rec.conf.v /\ tasks[t].rec.conf.v <= 100

\* C29: every Classification attached to a Message or written to the index
\* carries one of the five labels, whatever the engine answered.
LabelAmongFive ==
  /\ \A t \in TaskIds : Classified(tasks[t].rec) => tasks[t].rec.cat \in Categories
  /\ \A k \in DOMAIN index : index[k].aiCategory \in Categories \cup {"none"}

---------------------------------------------------------------------------
(* Claims about the frame of the operations on one account                  *)

\* the step leaves alone the registered connection (the entry and the
\* connection object) and the poll timers of every account but a
OthersUntouched(a) ==
  \A b \in Accounts \ {a} :
    /\ MapHas(connections', b) = MapHas(connections, b)
    /\ MapGet(connections', b) = MapGet(connections, b)
    /\ MapHas(connections, b)
         => /\ connState'[MapGet(connections, b)] = connState[MapGet(connections, b)]
            /\ connBox'[MapGet(connections, b)] = connBox[MapGet(connections, b)]
    /\ (b \in syncIntervals') = (b \in syncIntervals)
    /\ liveTimers'[b] = liveTimers[b]

\* C30: an operation on one account (a step of its backfill or of one of its
\* poll ticks, a failure in it, a failure of its connection) never changes
\* the registered connection or the poll timer of another account.
AccountFrame ==
  [][/\ \A t \in TaskIds :
          (tasks'[t] # tasks[t] /\ tasks[t].kind # "stop" /\ tasks'[t].kind # "stop")
            => OthersUntouched(tasks[t].acct)
     /\ \A c \in ConnIds :
          (tasks' = tasks /\ connState'[c] # connState[c])
            => OthersUntouched(connAcct[c])]_vars

\* a poll tick of the first account is searching while the second account
\* keeps its timer and its registered connection, which has dropped
AccountFrameWitness ==
  \E t \in TaskIds :
    /\ tasks[t].kind = "tick" /\ tasks[t].acct = 1 /\ tasks[t].pc = "search"
    /\ MapHas(connections, 2) /\ liveTimers[2] > 0
    /\ connState[MapGet(connections, 2)] = "disconnected"

---------------------------------------------------------------------------
(* Claims about the classification in the store at the broadcast           *)

\* C31: when the classify stage succeeded, the document with the message's
\* id carries the label and the confidence of the Classification when the
\* broadcast is made: the payload of 'new_email' and the store agree.
BroadcastAgreesWithIndex ==
  [][\A t \in TaskIds :
       LET r  == tasks'[t].rec
           id == EmailId(tasks'[t].acct, r.uid)
       IN  (r.emit /\ ~tasks[t].rec.emit /\ Classified(r))
             => /\ id \in DOMAIN index'
                /\ index'[id].aiCategory = r.cat
                /\ index'[id].aiConfidence = r.conf]_vars

---------------------------------------------------------------------------
(* Claims about sendWebhook and sendWithRetry                               *)

\* C32: sendWebhook with a URL terminates and never throws to its caller.
\* Every step of it is the end of attempt k with 1 <= k <= Retries or of the
\* wait after a failed attempt k < Retries, which leads to attempt k + 1; a
\* success ends it at once, the failure of attempt Retries ends it with a
\* logged error, and either way the caller goes on to the broadcast.
SendWebhookBounded ==
  [][\A t \in TaskIds :
       LET old == tasks[t]
           new == tasks'[t]
       IN  (old.pc \in {"hookPost", "hookDelay"} /\ new # old)
             => /\ 1 <= old.rec.attempts /\ old.rec.attempts <= Retries
                /\ new.pc \in {"hookPost", "hookDelay", "ret"}
                /\ new.pc = "hookDelay"
                     => /\ old.pc = "hookPost" /\ new.rec.hook = "waiting"
                        /\ new.rec.attempts = old.rec.attempts
                        /\ old.rec.attempts < Retries
                /\ new.pc = "hookPost"
                     => /\ old.pc = "hookDelay"
                        /\ new.rec.attempts = old.rec.attempts + 1
                /\ new.pc = "ret"
                     => /\ old.pc = "hookPost" /\ new.rec.emit
                        /\ new.errLogged = old.errLogged
                        /\ new.rec.attempts = old.rec.attempts
                        /\ new.rec.hook \in {"ok", "fail"}
                        /\ new.rec.hook = "fail" => old.rec.attempts = Retries]_vars

\* the webhook was given up after Retries failed attempts and the message
\* was broadcast
SendWebhookBoundedWitness ==
  \E t \in TaskIds :
    /\ tasks[t].pc = "ret" /\ tasks[t].rec.hook = "fail"
    /\ tasks[t].rec.attempts = Retries /\ tasks[t].rec.emit /\ ~tasks[t].errLogged

\* C33: the wait after failed attempt k is 2^k x 1000 ms: 2000 ms after the
\* first, each later wait the double of the one before, and no wait after
\* attempt Retries.
BackoffDoubles ==
  [][\A t \in TaskIds :
       LET old == tasks[t]
           new == tasks'[t]
       IN  /\ (old.pc = "hookPost" /\ new.pc = "hookDelay")
                => /\ new.rec.delay = 2 ^ old.rec.attempts * 1000
                   /\ old.rec.attempts = 1 => new.rec.delay = 2000
                   /\ old.rec.attempts > 1 => new.rec.delay = 2 * old.rec.delay
                   /\ old.rec.attempts < Retries
           /\ (old.pc = "hookPost" /\ old.rec.attempts = Retries /\ new # old)
                => new.pc = "ret"]_vars

\* the second wait of a delivery is under way: 4000 ms after 2000 ms
BackoffDoublesWitness ==
  \E t \in TaskIds :
    /\ tasks[t].pc = "hookDelay" /\ tasks[t].rec.attempts = 2
    /\ tasks[t].rec.delay = 4000

---------------------------------------------------------------------------
(* Claims about what polling eventually does (WatchSpec)                    *)

\* account a is polled on a healthy connection
Watched(a) ==
  /\ isRunning /\ Polling(a)
  /\ MapHas(connections, a) /\ Usable(MapGet(connections, a))

\* record i is on the server, unseen
Appeared(i) == i <= Len(mbox) /\ mbox[i].date <= now /\ ~mbox[i].seen

\* a poll tick has run record i of account a through the pipeline up to the
\* broadcast, index call accepted
BroadcastByTick(a, i) ==
  \E t \in TaskIds :
    /\ tasks[t].kind = "tick" /\ tasks[t].acct = a /\ tasks[t].pc = "ret"
    /\ tasks[t].rec.uid = i /\ tasks[t].rec.index = "ok" /\ tasks[t].rec.emit

\* the store has refused record i of account a
StoreRefused(a, i) ==
  \E t \in TaskIds :
    /\ tasks[t].acct = a /\ tasks[t].rec.uid = i /\ tasks[t].rec.index = "fail"

---------------------------------------------------------------------------
(* Claims about the registries across stop() and start()                    *)

\* C35: every account has at most one live poll timer, and a live timer is
\* the one registered for the account in syncIntervals (so that stop() clears
\* every timer there is): no timer is replaced in the registry while live.
OneRegisteredTimer ==
  \A a \in Accounts :
    liveTimers[a] = IF a \in syncIntervals THEN 1 ELSE 0

\* C36: from the return of stop() until the next call of start() the
\* connection registry and the timer registry are empty and the status
\* report names no account, also when stop() was called during a backfill.
RegistriesEmptyWhileStopped ==
  Stopped
    => /\ connections = <<>>
       /\ syncIntervals = {}
       /\ DOMAIN getConnectionStatus = {}

---------------------------------------------------------------------------
(* Claims about folders under overlapping ticks (PollSpec)                  *)

\* C37: every Message of a pass carries the folder that was selected on the
\* connection when its raw record was fetched: whenever a search of a pass
\* resolves, the folder selected on its connection is the folder of the
\* pass's loop, which is the one the normalizer writes into the Messages.
FolderLabelIsSelectedFolder ==
  [][\A t \in TaskIds :
       SearchOk(t) => connBox[tasks[t].conn] = tasks[t].fi]_vars

============================================================================
